---- MODULE Spec2Model ----
(***************************************************************************)
(* Model of the mexc-sniper bot (src/bot.py, src/main.py):                 *)
(*   - MexcSnipeBot.snipe_listing: the wait-until-arm loop, the call of    *)
(*     burst_sniper_optimized and the start of the take-profit thread;     *)
(*   - burst_sniper_optimized: waves of asyncio tasks running try_order,   *)
(*     asyncio.wait(FIRST_COMPLETED), task.cancel() of the pending tasks;  *)
(*   - the venue behind AsyncMexcClient.new_order / query_order;           *)
(*   - MexcSnipeBot.monitor_take_profit and sell_token;                    *)
(*   - the menu loop of main, which may call snipe_listing again, call the *)
(*     manual helpers, quit, or die of an uncaught exception.              *)
(* Time is counted in units of 50 ms.  Prices and quantities are exact     *)
(* rationals over small integers (the code uses floats).                   *)
(***************************************************************************)
EXTENDS Integers, Sequences, FiniteSets, TLC

\* ---------------------------------------------------------------- bounds
MaxW == 2            \* largest orders_per_burst explored
MaxB == 2            \* largest bursts explored
MaxTime == 5         \* horizon of the clock (it saturates there)
MaxStart == 3        \* latest clock value at the call of snipe_listing
MaxFills == 2        \* how many orders the venue fills in one run
MaxQty == 1          \* largest executedQty the venue reports
MaxPrice == 2        \* largest ticker price
MaxReadings == 2     \* price polls explored per monitor run
WindowLen == 2       \* length of the RaceWindow of spec.md, in time units
BuyAmount == 1       \* quote amount spent by a filled market buy
MaxCalls == 2        \* snipe_listing calls explored in one run of main
MaxMenuOps == 1      \* manual buy / sell / balance choices explored
RepeatMax == 1       \* largest race for which a further call is explored

\* ------------------------------------------------------ program constants
ArmLead == 6         \* timedelta(milliseconds=300), in 50 ms units
WaitSleep == 1       \* time.sleep(0.05)
BurstDelay == 2      \* delay_between_bursts=0.1

TargetTimes == {ArmLead + 2}
Pcts == {0, 50}
Prices == 0..MaxPrice

Waves == 1..MaxB
Slots == 1..MaxW
Ids == Waves \X Slots          \* a task and the order it submits share an id
Calls == 1..MaxCalls

Min(a, b) == IF a < b THEN a ELSE b

None == [status |-> "None", orderId |-> <<0, 0>>, executedQty |-> 0,
         cummulativeQuoteQty |-> 0]

VARIABLES
    now,               \* datetime.now(timezone.utc)
    target_time,       \* snipe_listing: target_time
    slept,             \* the wait loop has executed time.sleep(0.05)
    start_now,         \* clock value when the wait loop was entered
    pc,                \* position of the main thread
    call,              \* number of the current snipe_listing call
    menu_ops,          \* manual menu choices served so far
    bursts, orders_per_burst,
    burst_num,
    tasks,             \* burst_sniper_optimized: tasks (of the current wave)
    venue,             \* the venue's order book for the orders of this race
    obtained,          \* order ids the racer has read from a new_order answer
    cancel_requests,   \* order ids for which a cancel-order request was sent
    first_submit_at, last_submit_at,   \* clock at the first / last new_order
    n_submits,         \* new_order calls of the current race
    filled_order,      \* result of burst_sniper_optimized, per call
    mpc,               \* position of each call's monitor_take_profit thread
    executed_qty, cost, take_profit_pct,   \* arguments of each monitor
    readings,          \* successful ticker_price readings so far
    sells,             \* quantities of the sell orders requested
    mend               \* how the monitor ended

vars == <<now, target_time, slept, start_now, pc, call, menu_ops, bursts,
          orders_per_burst, burst_num, tasks, venue, obtained,
          cancel_requests, first_submit_at, last_submit_at, n_submits,
          filled_order, mpc, executed_qty, cost,
          take_profit_pct, readings, sells, mend>>

raceVars == <<bursts, orders_per_burst, burst_num, tasks, obtained,
              cancel_requests, first_submit_at, last_submit_at, n_submits,
              filled_order>>
waitVars == <<target_time, slept, start_now>>
mainVars == <<call, menu_ops>>
monVars == <<mpc, executed_qty, cost, take_profit_pct, readings, sells, mend>>

NoTask == [st |-> "none", cause |-> "none", ret |-> None]
NoOrder == [status |-> "none", executedQty |-> 0]

armTime == target_time - ArmLead

Init ==
    /\ now \in 0..MaxStart
    /\ start_now = now
    /\ target_time \in TargetTimes
    /\ slept = FALSE
    /\ pc = "wait_check"
    /\ call = 1
    /\ menu_ops = 0
    /\ bursts \in 1..MaxB
    /\ orders_per_burst \in 1..MaxW
    /\ burst_num = 1
    /\ tasks = [i \in Slots |-> NoTask]
    /\ venue = [o \in Ids |-> NoOrder]
    /\ obtained = {}
    /\ cancel_requests = {}
    /\ first_submit_at = -1
    /\ last_submit_at = -1
    /\ n_submits = 0
    /\ filled_order = [c \in Calls |-> None]
    /\ mpc = [c \in Calls |-> "idle"]
    /\ executed_qty = [c \in Calls |-> 0]
    /\ cost = [c \in Calls |-> 0]
    /\ take_profit_pct = [c \in Calls |-> 0]
    /\ readings = [c \in Calls |-> <<>>]
    /\ sells = [c \in Calls |-> <<>>]
    /\ mend = [c \in Calls |-> "none"]

\* ------------------------------------------- snipe_listing: the wait loop
\* Mutant of MustWait: the loop gives up one time unit too early.
MustWait_Early(t) == t + 1 < target_time - ArmLead

\* datetime.now(timezone.utc) < target_time - timedelta(milliseconds=300)
MustWait(t) == t < target_time - ArmLead

\* Line 215: the loop condition is evaluated on a fresh clock reading.
WaitCheck ==
    /\ pc = "wait_check"
    /\ pc' = IF MustWait(now) THEN "wait_sleep" ELSE "launch"
    /\ UNCHANGED <<now, venue, raceVars, waitVars, mainVars, monVars>>

\* Line 216: time.sleep(0.05) sleeps at least that long.
DoWaitSleep ==
    /\ pc = "wait_sleep"
    /\ \E extra \in 0..1 : now' = Min(now + WaitSleep + extra, MaxTime)
    /\ slept' = TRUE
    /\ pc' = "wait_check"
    /\ UNCHANGED <<target_time, start_now, venue, raceVars, mainVars, monVars>>

\* ------------------------------------------------ burst_sniper_optimized
\* Mutant of Wave: a task is created for every slot, whatever the width.
Wave_All == Slots

\* Line 87: range(orders_per_burst).
Wave == 1..orders_per_burst
Oid(i) == <<burst_num, i>>
Done == {i \in Wave : tasks[i].st = "done"}
Pending == {i \in Wave : tasks[i].st \in {"created", "submitting", "querying"}}

\* Lines 71-87: the next pass of the for loop creates the tasks of the wave.
Launch ==
    /\ pc = "launch"
    /\ burst_num <= bursts
    /\ tasks' = [i \in Slots |-> IF i \in Wave
                                 THEN [NoTask EXCEPT !.st = "created"]
                                 ELSE NoTask]
    /\ pc' = "await"
    /\ UNCHANGED <<now, venue, bursts, orders_per_burst, burst_num, obtained,
                   cancel_requests, first_submit_at, last_submit_at,
                   n_submits, filled_order, waitVars, mainVars, monVars>>

\* A task starts running: try_order calls client.new_order (line 76) and the
\* request is sent.  The event loop starts the tasks in creation order.
StartTask(i) ==
    /\ pc = "await"
    /\ i \in Wave
    /\ tasks[i].st = "created"
    /\ \A j \in Wave : j < i => tasks[j].st # "created"
    /\ tasks' = [tasks EXCEPT ![i].st = "submitting"]
    /\ first_submit_at' = IF first_submit_at = -1 THEN now ELSE first_submit_at
    /\ last_submit_at' = now
    /\ n_submits' = n_submits + 1
    /\ UNCHANGED <<now, pc, venue, bursts, orders_per_burst, burst_num,
                   obtained, cancel_requests, filled_order, waitVars, mainVars, monVars>>

AllStarted == \A j \in Wave : tasks[j].st # "created"

\* Lines 76-78: new_order returns the venue's JSON, an acknowledgement
\* carrying orderId, or a rejection without one.
RecvSubmit(i) ==
    /\ pc = "await" /\ AllStarted
    /\ i \in Wave
    /\ tasks[i].st = "submitting"
    /\ \E ack \in BOOLEAN :
         IF ack
         THEN /\ venue' = [venue EXCEPT ![Oid(i)].status = "NEW"]
              /\ obtained' = obtained \cup {Oid(i)}
              /\ tasks' = [tasks EXCEPT ![i].st = "querying"]
         ELSE /\ venue' = venue
              /\ obtained' = obtained
              /\ tasks' = [tasks EXCEPT ![i].st = "done",
                                        ![i].cause = "rejected"]
    /\ UNCHANGED <<now, pc, bursts, orders_per_burst, burst_num,
                   cancel_requests, first_submit_at, last_submit_at,
                   n_submits, filled_order, waitVars, mainVars, monVars>>

\* Lines 76, 83-85: new_order raises (timeout, connection error, malformed
\* JSON) and the except branch returns None.  The request may or may not
\* have reached the venue.
SubmitError(i) ==
    /\ pc = "await" /\ AllStarted
    /\ i \in Wave
    /\ tasks[i].st = "submitting"
    /\ \E reached \in BOOLEAN :
         venue' = IF reached THEN [venue EXCEPT ![Oid(i)].status = "NEW"]
                  ELSE venue
    /\ tasks' = [tasks EXCEPT ![i].st = "done", ![i].cause = "transport"]
    /\ UNCHANGED <<now, pc, bursts, orders_per_burst, burst_num, obtained,
                   cancel_requests, first_submit_at, last_submit_at,
                   n_submits, filled_order, waitVars, mainVars, monVars>>

\* The status JSON the venue returns for order o.
StatusOf(o) == [status |-> venue[o].status, orderId |-> o,
                executedQty |-> venue[o].executedQty,
                cummulativeQuoteQty |-> BuyAmount]

\* try_order, lines 80-85: how the attempt ends for a query answer.  A
\* FILLED answer with executedQty 0 raises ZeroDivisionError in the print of
\* line 81, which the except branch turns into None.
\* Mutant of TryOrderCause: line 81 does not divide by executedQty.
TryOrderCause_NoPrint(status) ==
    IF status.status = "FILLED" THEN "filled" ELSE "notfilled"

TryOrderCause(status) ==
    IF status.status = "FILLED"
    THEN IF status.executedQty = 0 THEN "error" ELSE "filled"
    ELSE "notfilled"

\* Mutant of TryOrderResult: the status check of line 80 is missing.
TryOrderResult_NoCheck(status) == status

TryOrderResult(status) ==
    IF TryOrderCause(status) = "filled" THEN status ELSE None

\* Lines 79-82: query_order answers with the order's current status.
QueryResp(i) ==
    /\ pc = "await" /\ AllStarted
    /\ i \in Wave
    /\ tasks[i].st = "querying"
    /\ tasks' = [tasks EXCEPT ![i].st = "done",
                              ![i].cause = TryOrderCause(StatusOf(Oid(i))),
                              ![i].ret = TryOrderResult(StatusOf(Oid(i)))]
    /\ UNCHANGED <<now, pc, venue, bursts, orders_per_burst, burst_num,
                   obtained, cancel_requests, first_submit_at, last_submit_at,
                   n_submits, filled_order, waitVars, mainVars, monVars>>

\* Lines 79, 83-85: query_order raises and the except branch returns None.
QueryError(i) ==
    /\ pc = "await" /\ AllStarted
    /\ i \in Wave
    /\ tasks[i].st = "querying"
    /\ tasks' = [tasks EXCEPT ![i].st = "done", ![i].cause = "transport"]
    /\ UNCHANGED <<now, pc, venue, bursts, orders_per_burst, burst_num,
                   obtained, cancel_requests, first_submit_at, last_submit_at,
                   n_submits, filled_order, waitVars, mainVars, monVars>>

Filled == {o \in Ids : venue[o].status = "FILLED"}

\* The venue matches an open order of the race, until snipe_listing has
\* consumed the race's result.
VenueFill(o) ==
    /\ pc \notin {"menu", "exited", "crashed"}
    /\ venue[o].status = "NEW"
    /\ Cardinality(Filled) < MaxFills
    /\ \E q \in 0..MaxQty :
         venue' = [venue EXCEPT ![o] = [status |-> "FILLED", executedQty |-> q]]
    /\ UNCHANGED <<now, pc, raceVars, waitVars, mainVars, monVars>>

\* Lines 88-91: the tasks the racer cancels when asyncio.wait returns.
ToCancel == Pending

\* Lines 93-97: the done tasks whose result makes the racer return.
Winners == {i \in Done : tasks[i].ret # None}

\* Lines 88-99: asyncio.wait(FIRST_COMPLETED) returns once a task of the
\* wave is done; the pending tasks are cancelled (a submit request in flight
\* may still reach the venue); a truthy result among the done tasks is
\* returned, and the coroutine's tasks are gone with it.
Wake ==
    /\ pc = "await"
    /\ Done # {}
    /\ \E d \in 0..1 : now' = Min(now + d, MaxTime)
    /\ LET inflight == {i \in ToCancel : tasks[i].st = "submitting"}
       IN \E reached \in SUBSET inflight :
            venue' = [o \in Ids |->
                        IF o[1] = burst_num /\ o[2] \in reached
                        THEN [venue[o] EXCEPT !.status = "NEW"]
                        ELSE venue[o]]
    /\ IF Winners # {}
       THEN /\ \E w \in Winners :
                 filled_order' = [filled_order EXCEPT ![call] = tasks[w].ret]
            /\ tasks' = [i \in Slots |-> NoTask]
            /\ pc' = "race_returned"
       ELSE /\ filled_order' = filled_order
            /\ tasks' = [i \in Slots |->
                           IF i \in ToCancel
                           THEN [tasks[i] EXCEPT !.st = "cancelled"]
                           ELSE tasks[i]]
            /\ pc' = "burst_sleep"
    /\ UNCHANGED <<bursts, orders_per_burst, burst_num, obtained,
                   cancel_requests, first_submit_at, last_submit_at,
                   n_submits, waitVars, mainVars, monVars>>

\* Mutant of MoreBursts: the loop never runs out of waves.
MoreBursts_Endless == TRUE

\* Line 71: range(1, bursts + 1) has a further value.
MoreBursts == burst_num < bursts

\* Lines 99-103: await asyncio.sleep(delay_between_bursts), then the next
\* wave, or "return None" after the last one.
BurstSleep ==
    /\ pc = "burst_sleep"
    /\ \E extra \in 0..1 : now' = Min(now + BurstDelay + extra, MaxTime)
    /\ IF MoreBursts
       THEN /\ burst_num' = burst_num + 1
            /\ tasks' = tasks
            /\ pc' = "launch"
       ELSE /\ burst_num' = burst_num
            /\ tasks' = [i \in Slots |-> NoTask]
            /\ pc' = "race_returned"
    /\ UNCHANGED <<venue, bursts, orders_per_burst, obtained,
                   cancel_requests, first_submit_at, last_submit_at,
                   n_submits, filled_order, waitVars, mainVars, monVars>>

\* ------------------------------------------ snipe_listing after the race
\* Mutant of StartsMonitor: the check of line 231 is missing.
StartsMonitor_Always(order) == TRUE

\* Line 231: "if not filled_order: return".
StartsMonitor(order) == order # None

\* Mutant of AfterStart: snipe_listing joins the monitor thread.
AfterStart_Join == "joining"

\* Lines 241-246: Thread(...).start() returns at once and snipe_listing
\* returns to the menu of main.
AfterStart == "menu"

\* Lines 231-246: no fill -> return; otherwise start the monitor thread with
\* the executed quantity and the cost of the returned order.  With the
\* return of snipe_listing the bookkeeping of the finished race is dropped.
AfterRace ==
    /\ pc = "race_returned"
    /\ IF ~StartsMonitor(filled_order[call])
       THEN /\ UNCHANGED monVars
            /\ pc' = "menu"
       ELSE /\ executed_qty' = [executed_qty EXCEPT
                                  ![call] = filled_order[call].executedQty]
            /\ cost' = [cost EXCEPT
                          ![call] = filled_order[call].cummulativeQuoteQty]
            /\ \E pct \in Pcts :
                 take_profit_pct' = [take_profit_pct EXCEPT ![call] = pct]
            /\ mpc' = [mpc EXCEPT ![call] = "watching"]
            /\ UNCHANGED <<readings, sells, mend>>
            /\ pc' = AfterStart
    /\ burst_num' = 1
    /\ venue' = [o \in Ids |-> NoOrder]
    /\ obtained' = {}
    /\ first_submit_at' = -1
    /\ last_submit_at' = -1
    /\ n_submits' = 0
    /\ slept' = FALSE
    /\ start_now' = now
    /\ UNCHANGED <<now, target_time, tasks, bursts, orders_per_burst,
                   cancel_requests, filled_order, mainVars>>

\* --------------------------------------------------- monitor_take_profit
\* The process is running: daemon threads live only as long as it does.
Alive == pc \notin {"exited", "crashed"}

\* Mutant of TargetHit: the percentage is left out of the target.
TargetHit_NoPct(c, current) == current * executed_qty[c] >= cost[c]

\* current >= target_price, with buy_price = cost / executed_qty and
\* target_price = buy_price * (1 + take_profit_pct / 100), cross-multiplied.
TargetHit(c, current) ==
    current * executed_qty[c] * 100 >= cost[c] * (100 + take_profit_pct[c])

\* Lines 163-166 and 179: one successful price poll.
MonPoll(c) ==
    /\ Alive
    /\ mpc[c] = "watching"
    /\ Len(readings[c]) < MaxReadings
    /\ \E current \in Prices :
         /\ readings' = [readings EXCEPT ![c] = Append(@, current)]
         /\ mpc' = [mpc EXCEPT ![c] = IF TargetHit(c, current)
                                      THEN "selling" ELSE "watching"]
    /\ UNCHANGED <<now, pc, venue, raceVars, waitVars, mainVars, executed_qty,
                   cost, take_profit_pct, sells, mend>>

\* Lines 180-182: the except branch ends the loop with "break".
AfterPollError == "done"

\* Lines 163-164, 180-182: ticker_price (or the parse of its answer) raises.
MonPollError(c) ==
    /\ Alive
    /\ mpc[c] = "watching"
    /\ mpc' = [mpc EXCEPT ![c] = AfterPollError]
    /\ mend' = [mend EXCEPT ![c] = "price_error"]
    /\ UNCHANGED <<now, pc, venue, raceVars, waitVars, mainVars, executed_qty,
                   cost, take_profit_pct, readings, sells>>

\* Mutant of AfterSell: a failed sell goes back to watching instead of
\* leaving the loop.
AfterSell_Retry(ok) == IF ok THEN "querying" ELSE "watching"

\* Mutant of AfterSell: the order is queried whatever sell_token returned.
AfterSell_QueryAnyway(ok) == "querying"

\* Where the monitor goes after sell_token returned (line 169 and the break
\* of line 178).
AfterSell(ok) == IF ok THEN "querying" ELSE "done"

\* Line 168 and sell_token: one market sell of executed_qty is requested;
\* sell_token returns the order, or None when the request raised.
MonSell(c) ==
    /\ Alive
    /\ mpc[c] = "selling"
    /\ sells' = [sells EXCEPT ![c] = Append(@, executed_qty[c])]
    /\ \E ok \in BOOLEAN :
         /\ mpc' = [mpc EXCEPT ![c] = AfterSell(ok)]
         /\ mend' = [mend EXCEPT ![c] = IF ok THEN @ ELSE "sell_failed"]
    /\ UNCHANGED <<now, pc, venue, raceVars, waitVars, mainVars, executed_qty,
                   cost, take_profit_pct, readings>>

\* Lines 171-178, 180-182: how the run ends for the answer of query_order.
\* A settled sell is logged; a sell whose executedQty is still 0 raises
\* ZeroDivisionError at line 172, a failed request raises too, and the
\* except branch logs the error.
QueryEnd(answer) ==
    CASE answer = "settled" -> "settled"
      [] answer = "unsettled" -> "unsettled"
      [] OTHER -> "error"

\* Lines 170-182: one query after 0.5 s; every path ends the loop.
MonQuery(c) ==
    /\ Alive
    /\ mpc[c] = "querying"
    /\ \E answer \in {"settled", "unsettled", "transport"} :
         mend' = [mend EXCEPT ![c] = QueryEnd(answer)]
    /\ mpc' = [mpc EXCEPT ![c] = "done"]
    /\ UNCHANGED <<now, pc, venue, raceVars, waitVars, mainVars, executed_qty,
                   cost, take_profit_pct, readings, sells>>

\* ------------------------------------------------------- main: the menu
\* main.py lines 26-31: choice "1" calls snipe_listing again; the monitors
\* started by earlier calls keep running.
MenuSnipe ==
    /\ pc = "menu"
    /\ call < MaxCalls
    /\ bursts <= RepeatMax /\ orders_per_burst <= RepeatMax
    /\ call' = call + 1
    /\ pc' = "wait_check"
    /\ target_time' \in TargetTimes
    /\ start_now' = now
    /\ UNCHANGED <<now, slept, menu_ops, venue, raceVars, monVars>>

\* main.py lines 39-58: manual BUY, manual SELL, balances; the helpers catch
\* their own errors and main returns to the menu.
MenuOp ==
    /\ pc = "menu"
    /\ menu_ops < MaxMenuOps
    /\ \E choice \in {"3", "4", "5"} : menu_ops' = menu_ops + 1
    /\ UNCHANGED <<now, pc, call, venue, raceVars, waitVars, monVars>>

\* main.py lines 60-62 and 67-68: "q" leaves the loop, main returns and the
\* interpreter exits; the daemon threads end with it.
MenuQuit ==
    /\ pc = "menu"
    /\ pc' = "exited"
    /\ UNCHANGED <<now, venue, raceVars, waitVars, mainVars, monVars>>

\* main.py lines 28-29, 33-37: float() of a bad input raises ValueError and
\* choice "2" calls bot.take_profit_trade, which MexcSnipeBot does not
\* define; main catches nothing, so the process dies.
MenuCrash ==
    /\ pc = "menu"
    /\ pc' = "crashed"
    /\ UNCHANGED <<now, venue, raceVars, waitVars, mainVars, monVars>>

Next ==
    \/ WaitCheck
    \/ DoWaitSleep
    \/ Launch
    \/ \E i \in Slots : StartTask(i)
    \/ \E i \in Slots : RecvSubmit(i)
    \/ \E i \in Slots : SubmitError(i)
    \/ \E i \in Slots : QueryResp(i)
    \/ \E i \in Slots : QueryError(i)
    \/ \E o \in Ids : VenueFill(o)
    \/ Wake
    \/ BurstSleep
    \/ AfterRace
    \/ \E c \in Calls : MonPoll(c)
    \/ \E c \in Calls : MonPollError(c)
    \/ \E c \in Calls : MonSell(c)
    \/ \E c \in Calls : MonQuery(c)
    \/ MenuSnipe
    \/ MenuOp
    \/ MenuQuit
    \/ MenuCrash

Spec == Init /\ [][Next]_vars

\* The scheduling the race relies on: the main thread and the event loop
\* keep running, and every submit and query request returns or raises.
RaceFairness ==
    /\ WF_vars(WaitCheck)
    /\ WF_vars(DoWaitSleep)
    /\ WF_vars(Launch)
    /\ \A i \in Slots : WF_vars(StartTask(i))
    /\ \A i \in Slots : WF_vars(RecvSubmit(i) \/ SubmitError(i))
    /\ \A i \in Slots : WF_vars(QueryResp(i) \/ QueryError(i))
    /\ WF_vars(Wake)
    /\ WF_vars(BurstSleep)

FairSpec == Spec /\ RaceFairness

TypeOK ==
    /\ now \in 0..MaxTime
    /\ pc \in {"wait_check", "wait_sleep", "launch", "await", "burst_sleep",
               "race_returned", "menu", "exited", "crashed"}
    /\ call \in Calls
    /\ menu_ops \in 0..MaxMenuOps
    /\ \A c \in Calls : mpc[c] \in {"idle", "watching", "selling", "querying",
                                    "done"}
    /\ burst_num \in 1..MaxB

\* ===================================================== claims about the race
Returned == pc = "race_returned"

\* Orders that the venue filled with a positive quantity.
RealFilled == {o \in Filled : venue[o].executedQty > 0}

\* C1: whenever burst_sniper_optimized returns and the venue has filled
\* exactly one of the submitted orders, the returned value is that order
\* (never None).
C1_OnlyFillIsReturned ==
    [][(pc # "race_returned" /\ pc' = "race_returned"
        /\ Cardinality(Filled') = 1 /\ RealFilled' = Filled')
       => (filled_order'[call] # None
           /\ filled_order'[call].orderId \in Filled')]_vars

\* C2: when the race has returned a winner, every other order id the racer
\* obtained (in this wave or an earlier one) has had a cancel-order request.
C2_LosersCancelled ==
    (Returned /\ filled_order[call] # None)
        => (obtained \ {filled_order[call].orderId}) \subseteq cancel_requests

\* C3: if the venue has filled none of the submitted orders, the race returns
\* None and no cancel-order request has been issued.
C3_NoFillReturnsNone ==
    (Returned /\ Filled = {})
        => (filled_order[call] = None /\ cancel_requests = {})

C3_Witness ==
    /\ pc = "race_returned"
    /\ Filled = {}
    /\ obtained # {}
    /\ filled_order[call] = None

Failed(i) == tasks[i].st = "done" /\ tasks[i].cause \in {"rejected", "transport"}

\* C4: when an attempt of a wave has failed (submit or query raised, or the
\* submission was rejected), no sibling attempt of that wave is aborted.
C4_SiblingsNotAborted ==
    \A i \in Wave : \A j \in Wave :
        (i # j /\ Failed(i)) => tasks[j].st # "cancelled"

\* C5: a further wave is launched only when every attempt of the previous
\* wave has finished its submit and its status query.
C5_WaveAfterAllFinished ==
    (pc = "launch" /\ burst_num > 1)
        => \A i \in Wave : tasks[i].st = "done"

\* The end of the RaceWindow of spec.md section 3.
expireTime == armTime + WindowLen

\* C6: no new_order call starts at or after expireTime.
C6_NoSubmitAfterExpire == last_submit_at < expireTime

C8_FailureDistinctFromNoFill ==
    \A i \in Wave : \A j \in Wave :
        (/\ tasks[i].st = "done" /\ tasks[i].cause = "transport"
         /\ tasks[j].st = "done" /\ tasks[j].cause = "notfilled")
        => tasks[i].ret # tasks[j].ret

\* ================================================== claims about the monitor
\* reading p is >= targetPrice = buy_price * (1 + take_profit_pct / 100),
\* where buy_price is the returned order's cummulativeQuoteQty / executedQty.
AtTarget(c, p) ==
    100 * p * filled_order[c].executedQty
        - (100 + take_profit_pct[c]) * filled_order[c].cummulativeQuoteQty >= 0

HitIndexes(c) == {k \in 1..Len(readings[c]) : AtTarget(c, readings[c][k])}

\* C9: no sell is issued while every reading so far is below targetPrice, and
\* the monitor leaves the watching phase for the sell on the first reading
\* that is >= targetPrice (no poll follows that reading).
C9_SellAtFirstCrossing ==
    \A c \in Calls :
        /\ HitIndexes(c) = {} => sells[c] = <<>>
        /\ HitIndexes(c) # {} => (/\ HitIndexes(c) = {Len(readings[c])}
                                  /\ mpc[c] # "watching")
        /\ mpc[c] \in {"selling", "querying"} => HitIndexes(c) # {}

C9_Witness ==
    \E c \in Calls :
        /\ Len(readings[c]) = 2
        /\ HitIndexes(c) = {2}
        /\ sells[c] # <<>>

\* C10: a monitor run issues at most one sell, for the full executed quantity
\* of the returned order; once the target has been crossed and the monitor
\* has ended, exactly one sell has been issued, whatever the post-sell query
\* answered.
C10_ExactlyOneFullSell ==
    \A c \in Calls :
        /\ Len(sells[c]) <= 1
        /\ \A k \in 1..Len(sells[c]) : sells[c][k] = filled_order[c].executedQty
        /\ (mpc[c] \in {"querying", "done"} /\ HitIndexes(c) # {})
               => Len(sells[c]) = 1

C10_Witness ==
    \E c \in Calls :
        /\ mpc[c] = "done"
        /\ mend[c] = "error"
        /\ Len(sells[c]) = 1
        /\ sells[c][1] = filled_order[c].executedQty

\* C11: a failed ticker_price call does not end the monitoring: the monitor
\* is still watching after it.
C11_PollErrorKeepsWatching ==
    \A c \in Calls : mend[c] = "price_error" => mpc[c] = "watching"

\* C12: a post-sell query that finds the sell not yet settled does not end
\* the run: the monitor goes on querying.
C12_UnsettledQueryRetried ==
    \A c \in Calls : mend[c] = "unsettled" => mpc[c] = "querying"

MonUnchanged(c) ==
    /\ mpc'[c] = mpc[c]
    /\ readings'[c] = readings[c]
    /\ sells'[c] = sells[c]
    /\ mend'[c] = mend[c]

\* C13: after a failed exit sell, and after a settled one, the monitor has
\* ended with exactly one sell requested, and it takes no further step: no
\* second sell, no price poll, no order query.
C13_TerminalAfterSell ==
    /\ [](\A c \in Calls :
            mend[c] \in {"sell_failed", "settled"}
                => (mpc[c] = "done" /\ Len(sells[c]) = 1))
    /\ [][\A c \in Calls :
            mend[c] \in {"sell_failed", "settled"} => MonUnchanged(c)]_vars

C13_Witness ==
    \E c \in Calls :
        /\ mend[c] = "sell_failed"
        /\ mpc[c] = "done"
        /\ Len(sells[c]) = 1

\* C14: the user's quit never stops a monitor that is still watching.
C14_QuitLeavesMonitorRunning ==
    pc = "exited" => \A c \in Calls : mpc[c] # "watching"

MainStep == pc' # pc \/ call' # call \/ menu_ops' # menu_ops

\* C15: once a call's monitor is started, snipe_listing is back in the menu
\* (it does not wait for the monitor), and no later step of the main thread
\* that keeps the process alive (menu choices, a further snipe_listing)
\* changes a started monitor.
C15_FireAndForget ==
    /\ [](\A c \in Calls :
            mpc[c] # "idle"
                => (c < call \/ pc \in {"menu", "exited", "crashed"}))
    /\ [][\A c \in Calls :
            (mpc[c] # "idle" /\ MainStep) => MonUnchanged(c)]_vars

C15_Witness ==
    \E c \in Calls :
        /\ c < call
        /\ pc = "await"
        /\ menu_ops > 0
        /\ mpc[c] = "watching"
        /\ readings[c] # <<>>

SnipeReturned(c) == c < call \/ pc \in {"menu", "exited", "crashed"}

\* C16: a call's monitor is started if and only if its race has returned a
\* filled order and snipe_listing has consumed it; the monitor is given that
\* order's executed quantity and cost; a call whose race returned None has
\* no monitor and no sell.
C16_HandOver ==
    \A c \in Calls :
        /\ mpc[c] # "idle" <=> (filled_order[c] # None /\ SnipeReturned(c))
        /\ mpc[c] # "idle"
               => /\ executed_qty[c] = filled_order[c].executedQty
                  /\ cost[c] = filled_order[c].cummulativeQuoteQty
        /\ filled_order[c] = None => sells[c] = <<>>

C16_Witness ==
    \E c \in Calls :
        /\ pc = "menu"
        /\ c = call
        /\ mpc[c] = "watching"
        /\ filled_order[c] # None
        /\ executed_qty[c] > 0

Running == {i \in Slots : tasks[i].st \in {"created", "submitting", "querying"}}

\* C17: at most orders_per_burst attempts are running, a race makes at most
\* bursts * orders_per_burst new_order calls, and once a fill has been
\* returned no attempt is running and no wave is launched.
C17_BoundedSubmission ==
    /\ Cardinality(Running) <= orders_per_burst
    /\ n_submits <= bursts * orders_per_burst
    /\ n_submits <= burst_num * orders_per_burst
    /\ filled_order[call] # None
           => (Running = {} /\ pc \in {"race_returned", "menu", "exited",
                                       "crashed"})

C17_Witness ==
    /\ bursts > 1
    /\ orders_per_burst > 1
    /\ n_submits = bursts * orders_per_burst
    /\ Cardinality(Running) = orders_per_burst

\* C18: every race that is launched returns, and it never runs a wave beyond
\* the configured number.
C18_RaceTerminates ==
    /\ (pc = "launch") ~> (pc = "race_returned")
    /\ [](burst_num <= bursts)

C18_Witness ==
    /\ pc = "race_returned"
    /\ bursts > 1
    /\ burst_num = bursts
    /\ filled_order[call] = None

IsRealFill(order) == order.status = "FILLED" /\ order.executedQty > 0

\* C19: every order returned by the race, and every truthy result of an
\* attempt, is FILLED with a positive executed quantity and carries an id
\* the racer obtained from new_order in this race; the quantity that
\* snipe_listing divides by is never 0.
C19_WinnerIsRealFill ==
    /\ \A i \in Slots :
         tasks[i].ret # None
             => (IsRealFill(tasks[i].ret) /\ tasks[i].ret.orderId \in obtained)
    /\ \A c \in Calls :
         filled_order[c] # None => IsRealFill(filled_order[c])
    /\ (pc = "race_returned" /\ filled_order[call] # None)
           => filled_order[call].orderId \in obtained
    /\ \A c \in Calls : mpc[c] # "idle" => executed_qty[c] > 0

C19_Witness ==
    \E i \in Slots :
        /\ tasks[i].st = "done"
        /\ tasks[i].cause = "error"
        /\ tasks[i].ret = None
        /\ venue[<<burst_num, i>>].status = "FILLED"
        /\ venue[<<burst_num, i>>].executedQty = 0

\* C20: when the race returns, every submitted order that the venue has
\* filled is the returned order; a race that returns None leaves no filled
\* order behind.
C20_NoUntrackedFill ==
    [][(pc # "race_returned" /\ pc' = "race_returned")
       => RealFilled' \subseteq {filled_order'[call].orderId}]_vars

====
